---- MODULE Spec2Model ----
(***************************************************************************)
(* A model of smoltcp's storage::RingBuffer (src/storage/ring_buffer.rs),  *)
(* of the loopback device phy::Loopback (src/phy/loopback.rs) and of the   *)
(* IPv6 extension header codec (src/wire/ipv6ext_header.rs).               *)
(*                                                                         *)
(* A ring is the record [storage, read_at, length].  Rust slices are       *)
(* 0-based and half-open, TLA+ sequences are 1-based: storage[i] of the    *)
(* code is storage[i + 1] here, and storage[a..b] is Slice(storage, a, b). *)
(* Every method of the code is an operator from a ring (and arguments) to  *)
(* a record holding the ring after the call and what the call returned;    *)
(* the actions apply these operators to the state variables.               *)
(***************************************************************************)
EXTENDS Integers, Sequences, FiniteSets, TLC

\* Largest capacity of the storage slab that is explored.
MaxCap == 3

\* Largest total number of elements enqueued in a behaviour of SpecFifo.
MaxHist == 5

\* usize::MAX: the largest value of the index type in the explored build.
UsizeMax == 15

\* The element type T: two distinguishable values.
Elem == {0, 1}

\* The value Resettable::reset gives a slot.
ResetElem == 0

VARIABLES
    storage,   \* RingBuffer::storage, a sequence of Elem of length C
    read_at,   \* RingBuffer::read_at
    length,    \* RingBuffer::length
    last,      \* the last call: its name, arguments, result and the ring before it
    hist_in,   \* history: every element enqueued so far, in order
    hist_out,  \* history: every element dequeued so far, in order
    queue,     \* Loopback::queue, the frames in flight, oldest first
    rx_tokens, \* the buffers of the RxTokens that are alive
    tx_token,  \* the TxToken that is alive, if any, and where its consume stands
    sent,      \* history: every frame committed by a TxToken, in order
    received,  \* history: every frame handed out by receive, in order
    lo_last,   \* the last call on the device or on a token
    hdr_buffer, \* the byte buffer an extension header views
    hdr_last   \* the last call on the header or on a Repr

vars == <<storage, read_at, length, last, hist_in, hist_out,
          queue, rx_tokens, tx_token, sent, received, lo_last,
          hdr_buffer, hdr_last>>

\* The state of the loopback device.
lo_vars == <<queue, rx_tokens, tx_token, sent, received, lo_last>>

\* The state of the extension header.
hdr_vars == <<hdr_buffer, hdr_last>>

Min(a, b) == IF a <= b THEN a ELSE b

\* All sequences over Elem of length exactly n, and of length at most n.
SeqsOfLen(n) == [1..n -> Elem]
SeqsUpTo(n) == UNION {SeqsOfLen(k) : k \in 0..n}

\* Rust's s[a..b].
Slice(s, a, b) == SubSeq(s, a + 1, b)

\* Whether s[a..b] is in bounds; the code panics when it is not.
SliceOk(s, a, b) == 0 <= a /\ a <= b /\ b <= Len(s)

\* s with b copied over s[at .. at + |b|).
Splice(s, at, b) ==
    [i \in 1..Len(s) |-> IF i > at /\ i <= at + Len(b) THEN b[i - at] ELSE s[i]]

\* The ring held by the state variables.
Ring == [storage |-> storage, read_at |-> read_at, length |-> length]

(***************************************************************************)
(* Queries.                                                                *)
(***************************************************************************)
capacity(r) == Len(r.storage)

len(r) == r.length

window(r) == capacity(r) - len(r)

\* a + b on usize: whether it overflows, and the value when it wraps.
overflows(a, b) == a + b > UsizeMax
wrapping_add(a, b) == (a + b) % (UsizeMax + 1)

get_idx(r, idx) ==
    IF capacity(r) > 0 THEN wrapping_add(r.read_at, idx) % capacity(r) ELSE 0

\* Whether the addition in get_idx overflows.
get_idx_overflows(r, idx) == capacity(r) > 0 /\ overflows(r.read_at, idx)

\* get_idx_unchecked counting from the start of the storage, not from read_at.
get_idx_unchecked_from_zero(r, idx) == idx % capacity(r)

\* No check of the capacity: a remainder by zero when C = 0.
get_idx_unchecked(r, idx) == (r.read_at + idx) % capacity(r)

contiguous_window(r) ==
    Min(window(r), capacity(r) - get_idx(r, r.length))

is_empty(r) == len(r) = 0

\* is_full that looks at the capacity only.
is_full_zero_capacity(r) == capacity(r) = 0

is_full(r) == window(r) = 0

\* The logical contents: the allocated elements from the head to the tail.
Contents(r) ==
    [i \in 1..r.length |-> r.storage[((r.read_at + i - 1) % capacity(r)) + 1]]

\* clear that forgets the read position.
clear_length_only(r) == [r EXCEPT !.length = 0]

clear(r) == [r EXCEPT !.read_at = 0, !.length = 0]

reset(r) ==
    [clear(r) EXCEPT !.storage = [i \in 1..capacity(r) |-> ResetElem]]

(***************************************************************************)
(* What a call returns.  Every method yields a record of this shape:       *)
(*   ring    the ring after the call                                       *)
(*   err     "" | "Full" | "Empty" | "panic"                               *)
(*   called  whether the closure was invoked                               *)
(*   mid     read_at and length as they are while the closure runs         *)
(*   idx     physical index of the slot or of the first slot of the slice  *)
(*   buflen  length of the slice handed to the closure or returned         *)
(*   fok     whether the closure returned Ok                               *)
(*   ret     the returned element count                                    *)
(*   out     the returned slice, or the caller's buffer after the call     *)
(*   rest    what is left of the caller's data after a closure consumed it *)
(*   overflow whether an addition on usize overflowed during the call      *)
(***************************************************************************)
Ret(r) ==
    [ring |-> r, err |-> "", called |-> FALSE,
     mid |-> [read_at |-> r.read_at, length |-> r.length],
     idx |-> 0, buflen |-> 0, fok |-> TRUE, ret |-> 0,
     out |-> <<>>, rest |-> <<>>, overflow |-> FALSE]

\* What a call that reached an overflowing addition can do: a build with
\* overflow checks panics at the addition, before the call changed the ring r;
\* a build without them goes on with the wrapped value to the result res.
Builds(r, res) ==
    IF res.overflow THEN {[Ret(r) EXCEPT !.err = "panic"], res} ELSE {res}

(***************************************************************************)
(* The discrete interface.  A closure over one slot is [ok, w]: it writes  *)
(* w (<<>>: nothing, <<e>>: the element e) into the slot and returns Ok     *)
(* when ok, Err otherwise.                                                 *)
(***************************************************************************)
OneClosures == [ok : BOOLEAN, w : SeqsUpTo(1)]

\* The closure `Ok` of enqueue_one and dequeue_one.
OkClosure == [ok |-> TRUE, w |-> <<>>]

\* enqueue_one_with that commits whatever the closure returns.
enqueue_one_with_ungated(r, f) ==
    IF is_full(r)
    THEN [Ret(r) EXCEPT !.err = "Full"]
    ELSE LET index == get_idx_unchecked(r, r.length)
             slot == Splice(r.storage, index, f.w)
         IN [Ret(r) EXCEPT
                !.ring = [r EXCEPT !.storage = slot, !.length = @ + 1],
                !.called = TRUE, !.idx = index, !.buflen = 1, !.fok = f.ok,
                !.ret = 1,
                !.out = <<slot[index + 1]>>]

\* enqueue_one_with that counts the element before it calls the closure and takes
\* the count back when the closure fails.
enqueue_one_with_eager(r, f) ==
    IF is_full(r)
    THEN [Ret(r) EXCEPT !.err = "Full"]
    ELSE LET index == get_idx_unchecked(r, r.length)
             slot == Splice(r.storage, index, f.w)
         IN [Ret(r) EXCEPT
                !.ring = [r EXCEPT !.storage = slot,
                                   !.length = IF f.ok THEN @ + 1 ELSE @],
                !.called = TRUE,
                !.mid = [read_at |-> r.read_at, length |-> r.length + 1],
                !.idx = index, !.buflen = 1, !.fok = f.ok,
                !.ret = IF f.ok THEN 1 ELSE 0,
                !.out = <<slot[index + 1]>>]

enqueue_one_with(r, f) ==
    IF is_full(r)
    THEN [Ret(r) EXCEPT !.err = "Full"]
    ELSE LET index == get_idx_unchecked(r, r.length)
             slot == Splice(r.storage, index, f.w)
         IN [Ret(r) EXCEPT
                !.ring = [r EXCEPT !.storage = slot,
                                   !.length = IF f.ok THEN @ + 1 ELSE @],
                !.called = TRUE, !.idx = index, !.buflen = 1, !.fok = f.ok,
                !.ret = IF f.ok THEN 1 ELSE 0,
                !.out = <<slot[index + 1]>>]

enqueue_one(r) == enqueue_one_with(r, OkClosure)

dequeue_one_with(r, f) ==
    IF is_empty(r)
    THEN [Ret(r) EXCEPT !.err = "Empty"]
    ELSE LET next_at == get_idx_unchecked(r, 1)
             slot == Splice(r.storage, r.read_at, f.w)
         IN [Ret(r) EXCEPT
                !.ring = [r EXCEPT !.storage = slot,
                                   !.length = IF f.ok THEN @ - 1 ELSE @,
                                   !.read_at = IF f.ok THEN next_at ELSE @],
                !.called = TRUE, !.idx = r.read_at, !.buflen = 1, !.fok = f.ok,
                !.ret = IF f.ok THEN 1 ELSE 0,
                !.out = <<r.storage[r.read_at + 1]>>]

dequeue_one(r) == dequeue_one_with(r, OkClosure)

\* n calls of enqueue_one in a row: the result of the last one, or of the first that
\* fails.
RECURSIVE enqueue_one_times(_, _)
enqueue_one_times(r, n) ==
    IF n = 0
    THEN Ret(r)
    ELSE LET a == enqueue_one(r)
         IN  IF a.err # "" THEN a ELSE enqueue_one_times(a.ring, n - 1)

\* n calls of dequeue_one in a row: the result of the last one, or of the first that
\* fails.
RECURSIVE dequeue_one_times(_, _)
dequeue_one_times(r, n) ==
    IF n = 0
    THEN Ret(r)
    ELSE LET a == dequeue_one(r)
         IN  IF a.err # "" THEN a ELSE dequeue_one_times(a.ring, n - 1)

(***************************************************************************)
(* The continuous interface.  A closure over a slice is a record           *)
(* [kind, n, data]; ApplyClosure(f, buf) is what it does with the slice    *)
(* buf it is handed: [buf, size, out, rest], the slice as it leaves it,    *)
(* the size it reports as committed, and its second result.                *)
(***************************************************************************)

\* The closure of enqueue_many and dequeue_many without the clamp to buf.len().
take_closure_unclamped(size, buf) ==
    [buf |-> buf, size |-> size, out |-> buf, rest |-> <<>>]

\* |buf| cmp::min(size, buf.len()); (size, &mut buf[..size])  (enqueue_many, dequeue_many)
take_closure(size, buf) ==
    LET sz == Min(size, Len(buf))
    IN [buf |-> buf, size |-> sz, out |-> Slice(buf, 0, sz), rest |-> <<>>]

\* The closure of enqueue_slice returning all of data, not what is left of it.
copy_from_closure_norest(data, buf) ==
    LET sz == Min(Len(buf), Len(data))
    IN [buf |-> Splice(buf, 0, Slice(data, 0, sz)), size |-> sz,
        out |-> <<>>, rest |-> data]

\* The closure of enqueue_slice: copy a prefix of data into buf, return the rest.
copy_from_closure(data, buf) ==
    LET sz == Min(Len(buf), Len(data))
    IN [buf |-> Splice(buf, 0, Slice(data, 0, sz)), size |-> sz,
        out |-> <<>>, rest |-> Slice(data, sz, Len(data))]

\* The closure of dequeue_slice moving the elements out: the slots it copied are left
\* in their reset state.
copy_to_closure_moving(data, buf) ==
    LET sz == Min(Len(buf), Len(data))
    IN [buf |-> [i \in 1..Len(buf) |-> IF i <= sz THEN ResetElem ELSE buf[i]],
        size |-> sz,
        out |-> Slice(buf, 0, sz), rest |-> Slice(data, sz, Len(data))]

\* The closure of dequeue_slice: copy a prefix of buf into data, return the rest of data.
copy_to_closure(data, buf) ==
    LET sz == Min(Len(buf), Len(data))
    IN [buf |-> buf, size |-> sz,
        out |-> Slice(buf, 0, sz), rest |-> Slice(data, sz, Len(data))]

\* A caller's closure: it writes w over the start of buf and reports n as committed,
\* whatever the length of buf is.
user_closure(n, w, buf) ==
    [buf |-> Splice(buf, 0, Slice(w, 0, Min(Len(w), Len(buf)))), size |-> n,
     out |-> buf, rest |-> <<>>]

ApplyClosure(f, buf) ==
    CASE f.kind = "take" -> take_closure(f.n, buf)
      [] f.kind = "copy_from" -> copy_from_closure(f.data, buf)
      [] f.kind = "copy_to" -> copy_to_closure(f.data, buf)
      [] f.kind = "user" -> user_closure(f.n, f.data, buf)

Take(n) == [kind |-> "take", n |-> n, data |-> <<>>]
CopyFrom(data) == [kind |-> "copy_from", n |-> 0, data |-> data]
CopyTo(data) == [kind |-> "copy_to", n |-> 0, data |-> data]
User(n, w) == [kind |-> "user", n |-> n, data |-> w]

\* enqueue_many_with without the reset of read_at on an empty ring.
enqueue_many_with_norebase(r, f) ==
    LET write_at == get_idx(r, r.length)
        max_size == contiguous_window(r)
        c == ApplyClosure(f, Slice(r.storage, write_at, write_at + max_size))
        r1 == [r EXCEPT !.storage = Splice(@, write_at, c.buf)]
        called == [Ret(r1) EXCEPT !.called = TRUE, !.idx = write_at,
                                  !.buflen = max_size]
    IN IF ~SliceOk(r.storage, write_at, write_at + max_size)
       THEN [Ret(r) EXCEPT !.err = "panic"]
       ELSE IF c.size <= max_size
       THEN [called EXCEPT !.ring = [r1 EXCEPT !.length = @ + c.size],
                           !.ret = c.size, !.out = c.out, !.rest = c.rest]
       ELSE [called EXCEPT !.err = "panic"]

enqueue_many_with(r, f) ==
    LET r0 == IF r.length = 0 THEN [r EXCEPT !.read_at = 0] ELSE r
        write_at == get_idx(r0, r0.length)
        max_size == contiguous_window(r0)
        c == ApplyClosure(f, Slice(r0.storage, write_at, write_at + max_size))
        r1 == [r0 EXCEPT !.storage = Splice(@, write_at, c.buf)]
        called == [Ret(r1) EXCEPT
                     !.called = TRUE,
                     !.mid = [read_at |-> r0.read_at, length |-> r0.length],
                     !.idx = write_at, !.buflen = max_size]
    IN IF ~SliceOk(r0.storage, write_at, write_at + max_size)
       THEN [Ret(r0) EXCEPT !.err = "panic"]
       ELSE IF c.size <= max_size
       THEN [called EXCEPT !.ring = [r1 EXCEPT !.length = @ + c.size],
                           !.ret = c.size, !.out = c.out, !.rest = c.rest]
       ELSE [called EXCEPT !.err = "panic"]

enqueue_many(r, size) == enqueue_many_with(r, Take(size))

\* enqueue_slice with one call of enqueue_many_with only.
enqueue_slice_once(r, data) == enqueue_many_with(r, CopyFrom(data))

enqueue_slice(r, data) ==
    LET a == enqueue_many_with(r, CopyFrom(data))
        b == enqueue_many_with(a.ring, CopyFrom(a.rest))
    IN IF a.err = "panic" THEN a
       ELSE [b EXCEPT !.mid = a.mid, !.idx = a.idx,
                      !.buflen = a.buflen + b.buflen, !.ret = a.ret + b.ret]

\* dequeue_many_with with the read position advanced and not wrapped.
dequeue_many_with_nowrap(r, f) ==
    LET cap == capacity(r)
        max_size == Min(len(r), cap - r.read_at)
        c == ApplyClosure(f, Slice(r.storage, r.read_at, r.read_at + max_size))
        r1 == [r EXCEPT !.storage = Splice(@, r.read_at, c.buf)]
        called == [Ret(r1) EXCEPT !.called = TRUE, !.idx = r.read_at,
                                  !.buflen = max_size]
    IN IF ~SliceOk(r.storage, r.read_at, r.read_at + max_size)
       THEN [Ret(r) EXCEPT !.err = "panic"]
       ELSE IF c.size <= max_size
       THEN [called EXCEPT
                !.ring = [r1 EXCEPT !.read_at = @ + c.size,
                                    !.length = @ - c.size],
                !.ret = c.size, !.out = c.out, !.rest = c.rest]
       ELSE [called EXCEPT !.err = "panic"]

\* dequeue_many_with offering all allocated elements, not only those up to the storage end.
dequeue_many_with_unclamped(r, f) ==
    LET cap == capacity(r)
        max_size == len(r)
        c == ApplyClosure(f, Slice(r.storage, r.read_at, r.read_at + max_size))
        r1 == [r EXCEPT !.storage = Splice(@, r.read_at, c.buf)]
        called == [Ret(r1) EXCEPT !.called = TRUE, !.idx = r.read_at,
                                  !.buflen = max_size]
    IN IF ~SliceOk(r.storage, r.read_at, r.read_at + max_size)
       THEN [Ret(r) EXCEPT !.err = "panic"]
       ELSE IF c.size <= max_size
       THEN [called EXCEPT
                !.ring = [r1 EXCEPT
                            !.read_at = IF cap > 0 THEN (@ + c.size) % cap ELSE 0,
                            !.length = @ - c.size],
                !.ret = c.size, !.out = c.out, !.rest = c.rest]
       ELSE [called EXCEPT !.err = "panic"]

dequeue_many_with(r, f) ==
    LET cap == capacity(r)
        max_size == Min(len(r), cap - r.read_at)
        c == ApplyClosure(f, Slice(r.storage, r.read_at, r.read_at + max_size))
        r1 == [r EXCEPT !.storage = Splice(@, r.read_at, c.buf)]
        called == [Ret(r1) EXCEPT !.called = TRUE, !.idx = r.read_at,
                                  !.buflen = max_size]
    IN IF ~SliceOk(r.storage, r.read_at, r.read_at + max_size)
       THEN [Ret(r) EXCEPT !.err = "panic"]
       ELSE IF c.size <= max_size
       THEN [called EXCEPT
                !.ring = [r1 EXCEPT
                            !.read_at = IF cap > 0 THEN (@ + c.size) % cap ELSE 0,
                            !.length = @ - c.size],
                !.ret = c.size, !.out = c.out, !.rest = c.rest]
       ELSE [called EXCEPT !.err = "panic"]

dequeue_many(r, size) == dequeue_many_with(r, Take(size))

\* dequeue_slice with one call of dequeue_many_with only.
dequeue_slice_once(r, data) ==
    LET a == dequeue_many_with(r, CopyTo(data))
    IN [a EXCEPT !.out = a.out \o a.rest]

dequeue_slice(r, data) ==
    LET a == dequeue_many_with(r, CopyTo(data))
        b == dequeue_many_with(a.ring, CopyTo(a.rest))
    IN IF a.err = "panic" THEN a
       ELSE [b EXCEPT !.mid = a.mid, !.idx = a.idx,
                      !.buflen = a.buflen + b.buflen, !.ret = a.ret + b.ret,
                      !.out = a.out \o b.out \o b.rest]

(***************************************************************************)
(* The random access interface.  get_unallocated and get_allocated return  *)
(* a slice of the storage, given here by the index of its first slot and   *)
(* its length, and whether an addition overflowed on the way.  The start   *)
(* index is computed before the offset is compared with the window.        *)
(***************************************************************************)
\* get_unallocated that clamps the size to the end of the storage only, not to the
\* window.
get_unallocated_past_window(r, offset, size) ==
    LET sum == wrapping_add(r.length, offset)
        start_at == get_idx(r, sum)
        ovf == overflows(r.length, offset) \/ get_idx_overflows(r, sum)
    IN IF offset > window(r)
       THEN [start |-> 0, size |-> 0, overflow |-> ovf]
       ELSE LET until_end == capacity(r) - start_at
                size2 == IF size > until_end THEN until_end ELSE size
            IN [start |-> start_at, size |-> size2, overflow |-> ovf]

\* get_unallocated measuring the offset from read_at, not from the first unallocated slot.
get_unallocated_from_read_at(r, offset, size) ==
    LET start_at == get_idx(r, offset)
        ovf == get_idx_overflows(r, offset)
    IN IF offset > window(r)
       THEN [start |-> 0, size |-> 0, overflow |-> ovf]
       ELSE LET clamped_window == window(r) - offset
                size1 == IF size > clamped_window THEN clamped_window ELSE size
                until_end == capacity(r) - start_at
                size2 == IF size1 > until_end THEN until_end ELSE size1
            IN [start |-> start_at, size |-> size2, overflow |-> ovf]

get_unallocated(r, offset, size) ==
    LET sum == wrapping_add(r.length, offset)
        start_at == get_idx(r, sum)
        ovf == overflows(r.length, offset) \/ get_idx_overflows(r, sum)
    IN IF offset > window(r)
       THEN [start |-> 0, size |-> 0, overflow |-> ovf]
       ELSE LET clamped_window == window(r) - offset
                size1 == IF size > clamped_window THEN clamped_window ELSE size
                until_end == capacity(r) - start_at
                size2 == IF size1 > until_end THEN until_end ELSE size1
            IN [start |-> start_at, size |-> size2, overflow |-> ovf]

write_unallocated(r, offset, data) ==
    LET s1 == get_unallocated(r, offset, Len(data))
        r1 == [r EXCEPT !.storage = Splice(@, s1.start, Slice(data, 0, s1.size))]
        offset2 == offset + s1.size
        data2 == Slice(data, s1.size, Len(data))
        s2 == get_unallocated(r1, offset2, Len(data2))
        r2 == [r1 EXCEPT !.storage = Splice(@, s2.start, Slice(data2, 0, s2.size))]
    IN [Ret(r2) EXCEPT !.mid = [read_at |-> r.read_at, length |-> r.length],
                       !.idx = s1.start, !.buflen = s1.size + s2.size,
                       !.ret = s1.size + s2.size,
                       !.rest = Slice(data2, s2.size, Len(data2)),
                       !.overflow = s1.overflow \/ s2.overflow]

\* enqueue_unallocated without its assert: any count is added to the length.
enqueue_unallocated_unchecked(r, count) ==
    [Ret(r) EXCEPT !.ring = [r EXCEPT !.length = @ + count]]

enqueue_unallocated(r, count) ==
    IF count <= window(r)
    THEN [Ret(r) EXCEPT !.ring = [r EXCEPT !.length = @ + count]]
    ELSE [Ret(r) EXCEPT !.err = "panic"]

get_allocated(r, offset, size) ==
    LET start_at == get_idx(r, offset)
        ovf == get_idx_overflows(r, offset)
    IN IF offset > r.length
       THEN [start |-> 0, size |-> 0, overflow |-> ovf]
       ELSE LET clamped_length == r.length - offset
                size1 == IF size > clamped_length THEN clamped_length ELSE size
                until_end == capacity(r) - start_at
                size2 == IF size1 > until_end THEN until_end ELSE size1
            IN [start |-> start_at, size |-> size2, overflow |-> ovf]

read_allocated(r, offset, data) ==
    LET s1 == get_allocated(r, offset, Len(data))
        part1 == Slice(r.storage, s1.start, s1.start + s1.size)
        offset2 == offset + s1.size
        data2 == Slice(data, s1.size, Len(data))
        s2 == get_allocated(r, offset2, Len(data2))
        part2 == Slice(r.storage, s2.start, s2.start + s2.size)
    IN [Ret(r) EXCEPT !.idx = s1.start, !.buflen = s1.size + s2.size,
                      !.ret = s1.size + s2.size,
                      !.out = part1 \o part2 \o Slice(data2, s2.size, Len(data2)),
                      !.overflow = s1.overflow \/ s2.overflow]

\* dequeue_allocated that adds count to read_at without going round the storage.
dequeue_allocated_nowrap(r, count) ==
    IF count <= len(r)
    THEN [Ret(r) EXCEPT !.ring = [r EXCEPT !.length = @ - count,
                                          !.read_at = @ + count]]
    ELSE [Ret(r) EXCEPT !.err = "panic"]

\* dequeue_allocated asserting count < len: it rejects a count equal to the length.
dequeue_allocated_strict(r, count) ==
    IF count < len(r)
    THEN LET r1 == [r EXCEPT !.length = @ - count]
         IN [Ret(r) EXCEPT !.ring = [r1 EXCEPT !.read_at = get_idx(r1, count)]]
    ELSE [Ret(r) EXCEPT !.err = "panic"]

dequeue_allocated(r, count) ==
    IF count <= len(r)
    THEN LET r1 == [r EXCEPT !.length = @ - count]
         IN [Ret(r) EXCEPT !.ring = [r1 EXCEPT !.read_at = get_idx(r1, count)]]
    ELSE [Ret(r) EXCEPT !.err = "panic"]

(***************************************************************************)
(* The loopback device (phy/loopback.rs).  A frame is a sequence of bytes, *)
(* the queue a sequence of frames.  A closure given to a token is the      *)
(* record [w, r]: it leaves w in the buffer it was given and returns r.    *)
(***************************************************************************)

\* Largest number of frames committed in a behaviour of SpecLoopback.
MaxFrames == 3

\* Largest length field whose header fits the short buffers of SpecHeader.
MaxUnits == 2

\* Byte values: zero and one other value.
Byte == {0, 1}

\* The lengths asked of TxToken::consume.
Lens == {0, 2}

\* What a closure returns (the type R).
Results == {"r1", "r2"}

\* The closures over a buffer of len bytes.
Closures(nbytes) == [w : [1..nbytes -> Byte], r : Results]

\* VecDeque::pop_back: the newest frame, not the oldest.
pop_back(q) ==
    IF q = <<>>
    THEN [some |-> FALSE, value |-> <<>>, queue |-> q]
    ELSE [some |-> TRUE, value |-> q[Len(q)], queue |-> SubSeq(q, 1, Len(q) - 1)]

\* VecDeque::pop_front.
pop_front(q) ==
    IF q = <<>>
    THEN [some |-> FALSE, value |-> <<>>, queue |-> q]
    ELSE [some |-> TRUE, value |-> Head(q), queue |-> Tail(q)]

\* A receive that hands out a copy of the head frame and leaves it queued.
receive_peek(q) ==
    LET p == pop_front(q)
    IN [some |-> p.some, buffer |-> p.value, queue |-> q]

\* Loopback::receive: Some((RxToken {buffer}, TxToken {queue})) or None.
receive(q) ==
    LET p == pop_front(q)
    IN [some |-> p.some, buffer |-> p.value, queue |-> p.queue]

\* Loopback::transmit: Some(TxToken {queue}).
transmit(q) == [some |-> TRUE, queue |-> q]

\* buffer.resize(len, 0) on a new Vec.
resize(nbytes) == [i \in 1..nbytes |-> 0]

\* TxToken::consume that queues the buffer as it was before f ran.
tx_consume_unmodified(q, nbytes, f) ==
    [seen |-> resize(nbytes), frame |-> resize(nbytes),
     queue |-> Append(q, resize(nbytes)), result |-> f.r]

\* TxToken::consume(len, f): seen is the buffer f is called on, frame the buffer after f.
tx_consume(q, nbytes, f) ==
    [seen |-> resize(nbytes), frame |-> f.w,
     queue |-> Append(q, f.w), result |-> f.r]

\* RxToken::consume(f): f is called on the token's buffer.
rx_consume(buffer, f) == [seen |-> buffer, result |-> f.r]

\* No TxToken is alive.
NoTx == [st |-> "none", buffer |-> <<>>, calls |-> 0, from |-> "", issued |-> <<>>]

\* A TxToken that waits to be consumed: the call that issued it and the queue it was
\* issued with.
HeldTx(from, q) ==
    [st |-> "held", buffer |-> <<>>, calls |-> 0, from |-> from, issued |-> q]

\* A TxToken that borrows the queue for as long as it is alive claims it for itself.
queue_borrowed_never(t) == FALSE

\* Whether the queue is mutably borrowed by a TxToken (TxToken<'a> holds
\* &'a mut VecDeque): receive and transmit need &mut self and cannot be called then.
queue_borrowed(t) == t.st # "none"

\* A TxToken that commits an empty frame when it is dropped.
drop_tx_commits(q) == Append(q, <<>>)

\* The queue after a TxToken is dropped: TxToken has no Drop implementation.
drop_tx(q) == q

\* The record of a call on the device or on a token: the queue before it, whether it
\* returned Some, the len asked for, the closure, how often it was called so far, the
\* frame and the result, and the TxToken and the number of RxTokens alive before it.
LoNote(op, some, nbytes, f, buffer, result) ==
    [op |-> op, pre |-> queue, some |-> some, len |-> nbytes, f |-> f,
     calls |-> 0, buffer |-> buffer, result |-> result,
     token |-> tx_token, rx_alive |-> Len(rx_tokens)]

NoClosure == [w |-> <<>>, r |-> ""]

\* Loopback::new(medium).
Loopback_new ==
    /\ queue = <<>>
    /\ rx_tokens = <<>>
    /\ tx_token = NoTx
    /\ sent = <<>>
    /\ received = <<>>
    /\ lo_last = [op |-> "new", pre |-> <<>>, some |-> FALSE, len |-> 0,
                  f |-> NoClosure, calls |-> 0, buffer |-> <<>>, result |-> "",
                  token |-> NoTx, rx_alive |-> 0]

(***************************************************************************)
(* The IPv6 extension header (wire/ipv6ext_header.rs).  A Header is a view *)
(* over a byte buffer, given here by the buffer itself: byte i of the code *)
(* is data[i + 1].  Every method yields a record of one shape:             *)
(*   err     "" | "Error" | "panic" (an index or a range out of bounds)    *)
(*   buffer  the buffer after the call                                     *)
(*   value   the returned number                                           *)
(*   proto   the returned protocol                                         *)
(*   start   the index of the first byte of the returned slice             *)
(*   out     the returned slice                                            *)
(*   repr    the returned Repr                                             *)
(***************************************************************************)
U8Max == 255

MIN_HEADER_SIZE == 8
NXT_HDR == 0
LENGTH == 1

\* The byte range of the payload for a length field: 2 .. length_field * 8 + 8,
\* computed on usize.
PAYLOAD(length_field) == [start |-> 2, end |-> length_field * 8 + 8]

\* IpProtocol: the bytes of a protocol number on one side, the protocol on the other.
Tcp == [variant |-> "Tcp", number |-> 0]
Unknown(b) == [variant |-> "Unknown", number |-> b]
NoProtocol == [variant |-> "", number |-> 0]

\* IpProtocol::from(u8).
IpProtocol_from(b) == IF b = 6 THEN Tcp ELSE Unknown(b)

\* u8::from(IpProtocol), `value.into()`.
IpProtocol_into(p) == IF p.variant = "Tcp" THEN 6 ELSE p.number

NoRepr == [next_header |-> NoProtocol, length |-> 0, data |-> <<>>]

HdrRet(buffer) ==
    [err |-> "", buffer |-> buffer, value |-> 0, proto |-> NoProtocol,
     start |-> 0, out |-> <<>>, repr |-> NoRepr]

HdrPanic(buffer) == [HdrRet(buffer) EXCEPT !.err = "panic"]

\* A check that compares the buffer with the minimal header size only.
check_len_min_only(buffer) ==
    IF Len(buffer) < MIN_HEADER_SIZE
    THEN [HdrRet(buffer) EXCEPT !.err = "Error"]
    ELSE HdrRet(buffer)

check_len(buffer) ==
    IF Len(buffer) < MIN_HEADER_SIZE
    THEN [HdrRet(buffer) EXCEPT !.err = "Error"]
    ELSE LET of == PAYLOAD(buffer[LENGTH + 1])
         IN  IF Len(buffer) < of.end
             THEN [HdrRet(buffer) EXCEPT !.err = "Error"]
             ELSE HdrRet(buffer)

\* new_unchecked wraps the buffer and cannot fail.
new_unchecked(buffer) == HdrRet(buffer)

\* new_unchecked, then check_len; the view is returned when the check passes.
new_checked(buffer) == check_len(new_unchecked(buffer).buffer)

next_header(buffer) ==
    IF Len(buffer) <= NXT_HDR
    THEN HdrPanic(buffer)
    ELSE [HdrRet(buffer) EXCEPT !.proto = IpProtocol_from(buffer[NXT_HDR + 1])]

header_len(buffer) ==
    IF Len(buffer) <= LENGTH
    THEN HdrPanic(buffer)
    ELSE [HdrRet(buffer) EXCEPT !.value = buffer[LENGTH + 1]]

\* A payload that runs to the end of the buffer.
payload_to_end(buffer) ==
    IF Len(buffer) <= LENGTH \/ PAYLOAD(buffer[LENGTH + 1]).end > Len(buffer)
    THEN HdrPanic(buffer)
    ELSE [HdrRet(buffer) EXCEPT !.start = 2, !.out = Slice(buffer, 2, Len(buffer))]

\* &data[PAYLOAD(data[LENGTH])]: reading the length field panics on a buffer of fewer
\* than two bytes, slicing panics when the range ends beyond the buffer.
payload(buffer) ==
    IF Len(buffer) <= LENGTH
    THEN HdrPanic(buffer)
    ELSE LET range == PAYLOAD(buffer[LENGTH + 1])
         IN  IF range.end > Len(buffer)
             THEN HdrPanic(buffer)
             ELSE [HdrRet(buffer) EXCEPT !.start = range.start,
                                         !.out = Slice(buffer, range.start, range.end)]

\* The slice payload_mut returns is the one payload returns, for writing.
payload_mut(buffer) ==
    IF Len(buffer) <= LENGTH
    THEN HdrPanic(buffer)
    ELSE LET range == PAYLOAD(buffer[LENGTH + 1])
         IN  IF range.end > Len(buffer)
             THEN HdrPanic(buffer)
             ELSE [HdrRet(buffer) EXCEPT !.start = range.start,
                                         !.out = Slice(buffer, range.start, range.end)]

\* The caller fills the slice payload_mut returned with the byte b.
payload_mut_fill(buffer, b) ==
    LET p == payload_mut(buffer)
    IN  IF p.err # ""
        THEN p
        ELSE [p EXCEPT !.buffer = Splice(buffer, p.start, [i \in 1..Len(p.out) |-> b]),
                       !.out = [i \in 1..Len(p.out) |-> b]]

set_next_header(buffer, value) ==
    IF Len(buffer) <= NXT_HDR
    THEN HdrPanic(buffer)
    ELSE HdrRet([buffer EXCEPT ![NXT_HDR + 1] = IpProtocol_into(value)])

\* A set_header_len that stores the length of the header in bytes.
set_header_len_bytes(buffer, value) ==
    IF Len(buffer) <= LENGTH
    THEN HdrPanic(buffer)
    ELSE HdrRet([buffer EXCEPT ![LENGTH + 1] = (value * 8 + 8) % (U8Max + 1)])

set_header_len(buffer, value) ==
    IF Len(buffer) <= LENGTH
    THEN HdrPanic(buffer)
    ELSE HdrRet([buffer EXCEPT ![LENGTH + 1] = value])

\* Repr::parse reads the three fields in turn and always returns Ok; it panics when
\* an accessor does.
parse(buffer) ==
    LET nh == next_header(buffer)
        hl == header_len(buffer)
        pl == payload(buffer)
    IN  IF nh.err # "" \/ hl.err # "" \/ pl.err # ""
        THEN HdrPanic(buffer)
        ELSE [HdrRet(buffer) EXCEPT !.repr = [next_header |-> nh.proto,
                                              length |-> hl.value,
                                              data |-> pl.out]]

\* Repr::header_len: the two bytes emit writes.
Repr_header_len(repr) == 2

\* An emit that also copies the data of the Repr behind the two bytes.
emit_with_data(repr, buffer) ==
    LET a == set_next_header(buffer, repr.next_header)
    IN  IF a.err # ""
        THEN a
        ELSE LET b == set_header_len(a.buffer, repr.length)
             IN  IF b.err # ""
                 THEN b
                 ELSE HdrRet(Splice(b.buffer, 2, repr.data))

\* Repr::emit: set_next_header, then set_header_len. On a view of one byte the
\* first has been written when the second panics.
emit(repr, buffer) ==
    LET a == set_next_header(buffer, repr.next_header)
    IN  IF a.err # "" THEN a ELSE set_header_len(a.buffer, repr.length)

\* The last call on the header: its name, arguments and result, and the buffer
\* before it.
HdrNote(op, value, proto, repr, res) ==
    [op |-> op, pre |-> hdr_buffer, value |-> value, proto |-> proto,
     repr |-> repr, res |-> res]

NoHdrCall ==
    [op |-> "none", pre |-> <<>>, value |-> 0, proto |-> NoProtocol,
     repr |-> NoRepr, res |-> HdrRet(<<>>)]

\* No header is looked at.
Header_none ==
    /\ hdr_buffer = <<>>
    /\ hdr_last = NoHdrCall

(***************************************************************************)
(* The state machine.  Each action is one call of a public method on the   *)
(* ring held by the state variables, with its arguments drawn from small   *)
(* sets; it records the call in `last`.  Every method borrows the ring     *)
(* (&mut self, and the returned slice or reference keeps the borrow), so   *)
(* the next call can start only after the borrow has ended: Release.       *)
(***************************************************************************)

\* Argument values: sizes, counts and offsets up to one more than the capacity.
Sizes == 0..(Len(storage) + 1)

\* Offsets: the same, and the largest value of usize.
Offsets == Sizes \cup {UsizeMax}

\* Slices a caller passes in: up to one element more than the capacity.
Slices == SeqsUpTo(Len(storage) + 1)

\* Destination buffers as the tests build them ([e; n]): n copies of one element.
Fills == {[i \in 1..n |-> e] : n \in Sizes, e \in Elem}

Note(op, off, n, data, res) ==
    [op |-> op, pre |-> Ring, off |-> off, n |-> n, data |-> data,
     err |-> res.err, called |-> res.called, mid |-> res.mid, idx |-> res.idx,
     buflen |-> res.buflen, fok |-> res.fok, ret |-> res.ret, out |-> res.out,
     rest |-> res.rest]

\* No call is in progress and no result of a call is borrowed.
NoCall ==
    LET none == [storage |-> <<>>, read_at |-> 0, length |-> 0]
        res == Ret(none)
    IN [op |-> "idle", pre |-> none, off |-> 0, n |-> 0, data |-> <<>>,
        err |-> res.err, called |-> res.called, mid |-> res.mid, idx |-> res.idx,
        buflen |-> res.buflen, fok |-> res.fok, ret |-> res.ret, out |-> res.out,
        rest |-> res.rest]

Idle == last = NoCall

SetRing(r) ==
    /\ storage' = r.storage
    /\ read_at' = r.read_at
    /\ length' = r.length

Do(op, off, n, data, res) ==
    /\ SetRing(res.ring)
    /\ last' = Note(op, off, n, data, res)
    /\ UNCHANGED <<hist_in, hist_out, lo_vars, hdr_vars>>

\* RingBuffer::new(storage) for a caller-owned slab of any contents.
Init ==
    /\ \E c \in 0..MaxCap : storage \in SeqsOfLen(c)
    /\ read_at = 0
    /\ length = 0
    /\ last = NoCall
    /\ hist_in = <<>>
    /\ hist_out = <<>>
    /\ Loopback_new
    /\ Header_none

Clear ==
    /\ Idle
    /\ Do("clear", 0, 0, <<>>, Ret(clear(Ring)))

Reset ==
    /\ Idle
    /\ Do("reset", 0, 0, <<>>, Ret(reset(Ring)))

EnqueueOneWith ==
    /\ Idle
    /\ \E f \in OneClosures :
        Do("enqueue_one_with", 0, 0, f.w, enqueue_one_with(Ring, f))

\* enqueue_one, and the caller storing w through the returned reference.
enqueue_one_store(r, w) ==
    LET res == enqueue_one(r)
        st == IF res.err = "" THEN Splice(res.ring.storage, res.idx, w)
              ELSE res.ring.storage
    IN [res EXCEPT !.ring.storage = st,
                   !.out = IF res.err = "" THEN <<st[res.idx + 1]>> ELSE <<>>]

EnqueueOne ==
    /\ Idle
    /\ \E w \in SeqsUpTo(1) : Do("enqueue_one", 0, 0, w, enqueue_one_store(Ring, w))

DequeueOneWith ==
    /\ Idle
    /\ \E f \in OneClosures :
        Do("dequeue_one_with", 0, 0, f.w, dequeue_one_with(Ring, f))

DequeueOne ==
    /\ Idle
    /\ Do("dequeue_one", 0, 0, <<>>, dequeue_one(Ring))

\* enqueue_many_with with a caller's closure that writes w and reports n.
EnqueueManyWith ==
    /\ Idle
    /\ \E n \in Sizes, w \in Slices :
        LET res == enqueue_many_with(Ring, User(n, w))
        IN /\ Len(w) <= res.buflen
           /\ Do("enqueue_many_with", 0, n, w, res)

\* enqueue_many(n), and the caller filling the returned slice with w.
enqueue_many_fill(r, n, w) ==
    LET res == enqueue_many(r, n)
    IN [res EXCEPT !.ring.storage = Splice(@, res.idx, w), !.out = w]

EnqueueMany ==
    /\ Idle
    /\ \E n \in Sizes :
        \E w \in SeqsOfLen(enqueue_many(Ring, n).ret) :
            Do("enqueue_many", 0, n, w, enqueue_many_fill(Ring, n, w))

EnqueueSlice ==
    /\ Idle
    /\ \E data \in Slices : Do("enqueue_slice", 0, 0, data, enqueue_slice(Ring, data))

DequeueManyWith ==
    /\ Idle
    /\ \E n \in Sizes, w \in Slices :
        LET res == dequeue_many_with(Ring, User(n, w))
        IN /\ Len(w) <= res.buflen
           /\ Do("dequeue_many_with", 0, n, w, res)

DequeueMany ==
    /\ Idle
    /\ \E n \in Sizes : Do("dequeue_many", 0, n, <<>>, dequeue_many(Ring, n))

DequeueSlice ==
    /\ Idle
    /\ \E data \in Slices : Do("dequeue_slice", 0, 0, data, dequeue_slice(Ring, data))

\* get_unallocated(offset, size), and the caller filling the returned slice with w.
get_unallocated_fill(r, offset, size, w) ==
    LET s == get_unallocated(r, offset, size)
    IN [Ret([r EXCEPT !.storage = Splice(@, s.start, w)]) EXCEPT
           !.idx = s.start, !.buflen = s.size, !.ret = s.size, !.out = w,
           !.overflow = s.overflow]

GetUnallocated ==
    /\ Idle
    /\ \E offset \in Offsets, size \in Sizes :
        \E w \in SeqsOfLen(get_unallocated(Ring, offset, size).size) :
            \E res \in Builds(Ring, get_unallocated_fill(Ring, offset, size, w)) :
                Do("get_unallocated", offset, size, w, res)

WriteUnallocated ==
    /\ Idle
    /\ \E offset \in Offsets, data \in Slices :
        \E res \in Builds(Ring, write_unallocated(Ring, offset, data)) :
            Do("write_unallocated", offset, 0, data, res)

EnqueueUnallocated ==
    /\ Idle
    /\ \E count \in Sizes :
        Do("enqueue_unallocated", 0, count, <<>>, enqueue_unallocated(Ring, count))

\* get_allocated(offset, size), and the caller reading the returned slice.
get_allocated_read(r, offset, size) ==
    LET s == get_allocated(r, offset, size)
    IN [Ret(r) EXCEPT
           !.idx = s.start, !.buflen = s.size, !.ret = s.size,
           !.out = Slice(r.storage, s.start, s.start + s.size),
           !.overflow = s.overflow]

GetAllocated ==
    /\ Idle
    /\ \E offset \in Offsets, size \in Sizes :
        \E res \in Builds(Ring, get_allocated_read(Ring, offset, size)) :
            Do("get_allocated", offset, size, <<>>, res)

ReadAllocated ==
    /\ Idle
    /\ \E offset \in Offsets, data \in Fills :
        \E res \in Builds(Ring, read_allocated(Ring, offset, data)) :
            Do("read_allocated", offset, 0, data, res)

DequeueAllocated ==
    /\ Idle
    /\ \E count \in Sizes :
        Do("dequeue_allocated", 0, count, <<>>, dequeue_allocated(Ring, count))

\* The borrow taken by the last call ends.
Release ==
    /\ ~Idle
    /\ last' = NoCall
    /\ UNCHANGED <<storage, read_at, length, hist_in, hist_out, lo_vars, hdr_vars>>

Next ==
    \/ Release
    \/ Clear
    \/ Reset
    \/ EnqueueOneWith
    \/ EnqueueOne
    \/ DequeueOneWith
    \/ DequeueOne
    \/ EnqueueManyWith
    \/ EnqueueMany
    \/ EnqueueSlice
    \/ DequeueManyWith
    \/ DequeueMany
    \/ DequeueSlice
    \/ GetUnallocated
    \/ WriteUnallocated
    \/ EnqueueUnallocated
    \/ GetAllocated
    \/ ReadAllocated
    \/ DequeueAllocated

Spec == Init /\ [][Next]_vars

(***************************************************************************)
(* The same calls of the discrete and the continuous interface with the    *)
(* history of what went in and what came out, and no record of the call.   *)
(* `added` are the elements the call enqueued (as the caller left them),   *)
(* `removed` the elements it handed out.                                   *)
(***************************************************************************)
Fifo(res, added, removed) ==
    /\ Len(hist_in) + Len(added) <= MaxHist
    /\ SetRing(res.ring)
    /\ hist_in' = hist_in \o added
    /\ hist_out' = hist_out \o removed
    /\ UNCHANGED <<last, lo_vars, hdr_vars>>

FifoEnqueueOne ==
    \E w \in SeqsUpTo(1) :
        LET res == enqueue_one_store(Ring, w) IN Fifo(res, res.out, <<>>)

FifoEnqueueMany ==
    \E n \in Sizes :
        \E w \in SeqsOfLen(enqueue_many(Ring, n).ret) :
            Fifo(enqueue_many_fill(Ring, n, w), w, <<>>)

FifoEnqueueSlice ==
    \E data \in Slices :
        LET res == enqueue_slice(Ring, data)
        IN Fifo(res, Slice(data, 0, res.ret), <<>>)

FifoDequeueOne ==
    LET res == dequeue_one(Ring)
    IN Fifo(res, <<>>, IF res.err = "" THEN res.out ELSE <<>>)

FifoDequeueMany ==
    \E n \in Sizes :
        LET res == dequeue_many(Ring, n) IN Fifo(res, <<>>, res.out)

FifoDequeueSlice ==
    \E data \in Fills :
        LET res == dequeue_slice(Ring, data)
        IN Fifo(res, <<>>, Slice(res.out, 0, res.ret))

NextFifo ==
    \/ FifoEnqueueOne
    \/ FifoEnqueueMany
    \/ FifoEnqueueSlice
    \/ FifoDequeueOne
    \/ FifoDequeueMany
    \/ FifoDequeueSlice

SpecFifo == Init /\ [][NextFifo]_vars

(***************************************************************************)
(* The loopback device as a state machine.  A TxToken borrows the queue    *)
(* mutably, so that receive and transmit can be called only when no        *)
(* TxToken is alive; an RxToken owns its buffer and borrows nothing.       *)
(* TxToken::consume is two steps, the call of f and its return, so that    *)
(* the state while f runs is a state of the model; the call is synchronous *)
(* and nothing else runs between the two steps.                            *)
(***************************************************************************)
LoRing == UNCHANGED <<storage, read_at, length, last, hist_in, hist_out, hdr_vars>>

\* An RxToken that stays alive after it is consumed or dropped.
Remove_keeps(s, i) == s

\* s without its i-th element.
Remove(s, i) == SubSeq(s, 1, i - 1) \o SubSeq(s, i + 1, Len(s))

Receive ==
    /\ ~queue_borrowed(tx_token)
    /\ LET r == receive(queue)
       IN /\ queue' = r.queue
          /\ rx_tokens' = IF r.some THEN Append(rx_tokens, r.buffer) ELSE rx_tokens
          /\ tx_token' = IF r.some THEN HeldTx("receive", r.queue) ELSE NoTx
          /\ received' = IF r.some THEN Append(received, r.buffer) ELSE received
          /\ lo_last' = LoNote("receive", r.some, 0, NoClosure, r.buffer, "")
    /\ UNCHANGED sent
    /\ LoRing

Transmit ==
    /\ ~queue_borrowed(tx_token)
    /\ LET t == transmit(queue)
       IN /\ queue' = t.queue
          /\ tx_token' = IF t.some THEN HeldTx("transmit", t.queue) ELSE NoTx
          /\ lo_last' = LoNote("transmit", t.some, 0, NoClosure, <<>>, "")
    /\ UNCHANGED <<rx_tokens, sent, received>>
    /\ LoRing

\* TxToken::consume(len, f) up to the call of f.
TxTokenConsume ==
    /\ tx_token.st = "held"
    /\ Len(sent) < MaxFrames
    /\ \E nbytes \in Lens :
          /\ tx_token' = [tx_token EXCEPT !.st = "in_f", !.buffer = resize(nbytes),
                                          !.calls = @ + 1]
          /\ lo_last' = [LoNote("tx_consume", FALSE, nbytes, NoClosure,
                                 resize(nbytes), "") EXCEPT !.calls = tx_token.calls + 1]
    /\ UNCHANGED <<queue, rx_tokens, sent, received>>
    /\ LoRing

\* f returns, and TxToken::consume with it.
TxTokenConsumeReturn ==
    /\ tx_token.st = "in_f"
    /\ \E f \in Closures(Len(tx_token.buffer)) :
          LET c == tx_consume(queue, Len(tx_token.buffer), f)
          IN /\ queue' = c.queue
             /\ sent' = Append(sent, c.frame)
             /\ lo_last' = [LoNote("tx_consumed", FALSE, lo_last.len, f, c.frame,
                                    c.result) EXCEPT !.calls = tx_token.calls]
    /\ tx_token' = NoTx
    /\ UNCHANGED <<rx_tokens, received>>
    /\ LoRing

\* The TxToken is dropped unconsumed.
TxTokenDrop ==
    /\ tx_token.st = "held"
    /\ tx_token' = NoTx
    /\ queue' = drop_tx(queue)
    /\ lo_last' = LoNote("tx_drop", FALSE, 0, NoClosure, <<>>, "")
    /\ UNCHANGED <<rx_tokens, sent, received>>
    /\ LoRing

\* RxToken::consume(f) with a closure that reads the buffer and returns r.
RxTokenConsume ==
    /\ tx_token.st # "in_f"
    /\ \E i \in 1..Len(rx_tokens), r \in Results :
          LET f == [w |-> rx_tokens[i], r |-> r]
              c == rx_consume(rx_tokens[i], f)
          IN /\ rx_tokens' = Remove(rx_tokens, i)
             /\ lo_last' = LoNote("rx_consume", FALSE, 0, f, c.seen, c.result)
    /\ UNCHANGED <<queue, tx_token, sent, received>>
    /\ LoRing

\* An RxToken is dropped unconsumed.
RxTokenDrop ==
    /\ tx_token.st # "in_f"
    /\ \E i \in 1..Len(rx_tokens) :
          /\ rx_tokens' = Remove(rx_tokens, i)
          /\ lo_last' = LoNote("rx_drop", FALSE, 0, NoClosure, <<>>, "")
    /\ UNCHANGED <<queue, tx_token, sent, received>>
    /\ LoRing

NextLoopback ==
    \/ Receive
    \/ Transmit
    \/ TxTokenConsume
    \/ TxTokenConsumeReturn
    \/ TxTokenDrop
    \/ RxTokenConsume
    \/ RxTokenDrop

\* The device alone: no ring buffer is part of this program.
InitLoopback ==
    /\ storage = <<>>
    /\ read_at = 0
    /\ length = 0
    /\ last = NoCall
    /\ hist_in = <<>>
    /\ hist_out = <<>>
    /\ Loopback_new
    /\ Header_none

SpecLoopback == InitLoopback /\ [][NextLoopback]_vars

(***************************************************************************)
(* The extension header as a state machine: one buffer, and each action is *)
(* one call on a view of it (new_unchecked cannot fail), recorded in       *)
(* hdr_last with the buffer before the call.                               *)
(***************************************************************************)
\* Length fields: the small ones, one more than any buffer below can hold, and the
\* largest a byte can hold.
LenFields == 0..(MaxUnits + 1) \cup {U8Max}

NextHeaderBytes == {6, U8Max}

Protocols == {IpProtocol_from(b) : b \in NextHeaderBytes}

\* Buffer lengths: every length up to one byte more than MaxUnits units need, and
\* what the largest length field needs, with one byte less.
BufLens ==
    0..(PAYLOAD(MaxUnits).end + 1) \cup {PAYLOAD(U8Max).end - 1, PAYLOAD(U8Max).end}

\* The bytes behind the two header bytes differ from index to index.
Pattern(i) == (7 * i) % (U8Max + 1)

Buffers ==
    {[i \in 1..n |-> IF i = NXT_HDR + 1 THEN nh
                     ELSE IF i = LENGTH + 1 THEN lf ELSE Pattern(i)] :
        n \in BufLens, nh \in NextHeaderBytes, lf \in LenFields}

\* The data of a Repr is a slice of some other buffer.
ReprData == {[i \in 1..6 |-> 170]}

Reprs == [next_header : Protocols, length : LenFields, data : ReprData]

FillByte == 238

HdrDo(op, value, proto, repr, res) ==
    /\ hdr_buffer' = res.buffer
    /\ hdr_last' = HdrNote(op, value, proto, repr, res)
    /\ UNCHANGED <<storage, read_at, length, last, hist_in, hist_out, lo_vars>>

CheckLen == HdrDo("check_len", 0, NoProtocol, NoRepr, check_len(hdr_buffer))

NewChecked == HdrDo("new_checked", 0, NoProtocol, NoRepr, new_checked(hdr_buffer))

NextHeader == HdrDo("next_header", 0, NoProtocol, NoRepr, next_header(hdr_buffer))

HeaderLen == HdrDo("header_len", 0, NoProtocol, NoRepr, header_len(hdr_buffer))

Payload == HdrDo("payload", 0, NoProtocol, NoRepr, payload(hdr_buffer))

PayloadMut ==
    HdrDo("payload_mut", FillByte, NoProtocol, NoRepr,
          payload_mut_fill(hdr_buffer, FillByte))

SetNextHeader ==
    \E value \in Protocols :
        HdrDo("set_next_header", 0, value, NoRepr, set_next_header(hdr_buffer, value))

SetHeaderLen ==
    \E value \in LenFields :
        HdrDo("set_header_len", value, NoProtocol, NoRepr,
              set_header_len(hdr_buffer, value))

Parse == HdrDo("parse", 0, NoProtocol, NoRepr, parse(hdr_buffer))

Emit ==
    \E repr \in Reprs :
        HdrDo("emit", Repr_header_len(repr), NoProtocol, repr, emit(repr, hdr_buffer))

NextHeaderCodec ==
    \/ CheckLen
    \/ NewChecked
    \/ NextHeader
    \/ HeaderLen
    \/ Payload
    \/ PayloadMut
    \/ SetNextHeader
    \/ SetHeaderLen
    \/ Parse
    \/ Emit

\* The specification of the extension header: any buffer, no ring and no device.
InitHeader ==
    /\ storage = <<>>
    /\ read_at = 0
    /\ length = 0
    /\ last = NoCall
    /\ hist_in = <<>>
    /\ hist_out = <<>>
    /\ Loopback_new
    /\ hdr_last = NoHdrCall
    /\ hdr_buffer \in Buffers

SpecHeader == InitHeader /\ [][NextHeaderCodec]_vars

(***************************************************************************)
(* Properties.                                                             *)
(***************************************************************************)
Cap == Len(storage)

IsPrefix(s, t) == Len(s) <= Len(t) /\ s = SubSeq(t, 1, Len(s))

\* C1: after any sequence of calls of the public methods, 0 <= length <= C, and
\* read_at is in [0, C) when C > 0 and is 0 when C = 0.
C1_IndexBounds ==
    /\ 0 <= length
    /\ length <= Cap
    /\ 0 <= read_at
    /\ IF Cap > 0 THEN read_at < Cap ELSE read_at = 0

\* C1 witness: a dequeue_slice has carried read_at over the end of a full storage
\* of at least two slots.
C1_Witness ==
    /\ last.op = "dequeue_slice"
    /\ Cap >= 2
    /\ last.pre.length = Cap
    /\ last.pre.read_at > 0
    /\ last.pre.read_at + last.ret > Cap
    /\ read_at > 0

\* C2: under any interleaving of enqueue_one, enqueue_many, enqueue_slice with
\* dequeue_one, dequeue_many, dequeue_slice, what has come out is a prefix of what
\* went in, and what went in is exactly what has come out followed by the elements
\* still queued, in order: nothing is lost, duplicated or reordered.
C2_Fifo ==
    /\ IsPrefix(hist_out, hist_in)
    /\ hist_in = hist_out \o Contents(Ring)

\* C2 witness: elements have come out, and the queued elements wrap around the end
\* of the storage.
C2_Witness ==
    /\ Len(hist_out) >= 2
    /\ length >= 2
    /\ read_at + length > Cap
    /\ hist_in = hist_out \o Contents(Ring)

\* C3: on an empty ring, whatever read_at is, enqueue_slice(D) with |D| <= C returns
\* |D|, and a following dequeue_slice into a destination of size |D| returns |D|,
\* fills the destination with exactly D and leaves length = 0.
C3_RoundTrip ==
    (last.op = "enqueue_slice" /\ last.pre.length = 0 /\ Len(last.data) <= Cap) =>
        /\ last.ret = Len(last.data)
        /\ \A dst \in Fills :
              Len(dst) = Len(last.data) =>
                  LET b == dequeue_slice(Ring, dst)
                  IN /\ b.err = ""
                     /\ b.ret = Len(last.data)
                     /\ b.out = last.data
                     /\ b.ring.length = 0

\* C3 witness: a ring emptied with read_at > 0 has taken a D of full capacity, and
\* dequeue_slice gives D back.
C3_Witness ==
    /\ last.op = "enqueue_slice"
    /\ last.pre.length = 0
    /\ last.pre.read_at > 0
    /\ Cap >= 2
    /\ Len(last.data) = Cap
    /\ last.data[1] # last.data[2]
    /\ dequeue_slice(Ring, [i \in 1..Cap |-> ResetElem]).out = last.data

\* C4: enqueue_slice(data) returns min(|data|, window), adds that much to length, and
\* stores data[i] at physical index (read_at + old length + i) mod C, read_at being the
\* position after the call (0 when the ring was empty, unchanged otherwise); the
\* elements allocated before stay where they were and what they were.
C4_EnqueueSlice ==
    last.op = "enqueue_slice" =>
        LET pre == last.pre
            k == Min(Len(last.data), Cap - pre.length)
        IN /\ last.err = ""
           /\ last.ret = k
           /\ length = pre.length + k
           /\ read_at = IF pre.length = 0 THEN 0 ELSE pre.read_at
           /\ \A i \in 0..(k - 1) :
                 storage[((read_at + pre.length + i) % Cap) + 1] = last.data[i + 1]
           /\ \A j \in 0..(pre.length - 1) :
                 storage[((pre.read_at + j) % Cap) + 1]
                     = pre.storage[((pre.read_at + j) % Cap) + 1]
           /\ Contents(Ring) = Contents(pre) \o SubSeq(last.data, 1, k)

\* C4 witness: the free space wrapped around the end of the storage and enqueue_slice
\* filled both parts of it.
C4_Witness ==
    /\ last.op = "enqueue_slice"
    /\ last.pre.length > 0
    /\ last.pre.read_at + last.pre.length < Cap
    /\ last.ret > Cap - (last.pre.read_at + last.pre.length)
    /\ last.ret < Len(last.data)

\* C5: dequeue_slice(dst) returns k = min(|dst|, length), copies the first k queued
\* elements into dst[0..k) in order, leaves dst[k..] untouched, takes k from length
\* and advances read_at by k modulo C.
C5_DequeueSlice ==
    last.op = "dequeue_slice" =>
        LET pre == last.pre
            k == Min(Len(last.data), pre.length)
        IN /\ last.err = ""
           /\ last.ret = k
           /\ Len(last.out) = Len(last.data)
           /\ SubSeq(last.out, 1, k) = SubSeq(Contents(pre), 1, k)
           /\ SubSeq(last.out, k + 1, Len(last.out))
                 = SubSeq(last.data, k + 1, Len(last.data))
           /\ length = pre.length - k
           /\ read_at = IF Cap > 0 THEN (pre.read_at + k) % Cap ELSE 0

\* C5 witness: the queued elements wrapped around the end of the storage, dequeue_slice
\* took them from both parts, and the destination was longer than what was queued.
C5_Witness ==
    /\ last.op = "dequeue_slice"
    /\ last.pre.read_at + last.pre.length > Cap
    /\ last.ret = last.pre.length
    /\ Len(last.data) > last.ret
    /\ last.data[Len(last.data)] # last.out[1]

\* C6: on an empty ring, whatever read_at is, enqueue_many_with sets read_at to 0 before
\* it calls the closure and hands it the whole storage slab[0, C); enqueue_many(n) returns
\* a slice of length min(n, C); read_at is 0 after the call, also when 0 elements are
\* committed.
C6_EmptyRebase ==
    (last.op \in {"enqueue_many_with", "enqueue_many"} /\ last.pre.length = 0) =>
        /\ last.called
        /\ last.mid = [read_at |-> 0, length |-> 0]
        /\ last.idx = 0
        /\ last.buflen = Cap
        /\ read_at = 0
        /\ last.op = "enqueue_many" =>
              /\ last.err = ""
              /\ last.ret = Min(last.n, Cap)
              /\ Len(last.out) = Min(last.n, Cap)
              /\ length = Min(last.n, Cap)

\* C6 witness: enqueue_many_with on a ring emptied with read_at > 0, the closure
\* committing 0 elements.
C6_Witness ==
    /\ last.op = "enqueue_many_with"
    /\ last.pre.length = 0
    /\ last.pre.read_at > 0
    /\ last.err = ""
    /\ last.ret = 0
    /\ read_at = 0

\* C7: after clear(), once or several times, len = 0, read_at = 0 and window = C, and
\* the next enqueue_many(n) with n >= C returns one slice of length C from index 0.
C7_Clear ==
    last.op = "clear" =>
        /\ length = 0
        /\ read_at = 0
        /\ window(Ring) = Cap
        /\ clear(Ring) = Ring
        /\ \A n \in Sizes :
              n >= Cap =>
                  LET e == enqueue_many(Ring, n)
                  IN e.err = "" /\ e.idx = 0 /\ e.ret = Cap /\ Len(e.out) = Cap

\* C7 witness: clear() of a ring that held elements at read_at > 0.
C7_Witness ==
    /\ last.op = "clear"
    /\ last.pre.length > 0
    /\ last.pre.read_at > 0
    /\ Cap >= 2

\* C8: enqueue_one_with / enqueue_one on a full ring return Err(Full), dequeue_one_with /
\* dequeue_one on an empty ring return Err(Empty), in both cases without invoking the
\* closure and without changing read_at, length or the storage; on a ring that is not
\* full (not empty) they do not return Full (Empty).
C8_BoundaryErrors ==
    /\ last.op \in {"enqueue_one_with", "enqueue_one"} =>
          IF last.pre.length = Cap
          THEN last.err = "Full" /\ ~last.called /\ Ring = last.pre
          ELSE last.err = ""
    /\ last.op \in {"dequeue_one_with", "dequeue_one"} =>
          IF last.pre.length = 0
          THEN last.err = "Empty" /\ ~last.called /\ Ring = last.pre
          ELSE last.err = ""

\* C8 witness: enqueue_one_with, its closure writing an element, refused on a full ring
\* of capacity >= 1.
C8_Witness ==
    /\ last.op = "enqueue_one_with"
    /\ last.err = "Full"
    /\ Cap >= 1
    /\ Len(last.data) = 1
    /\ last.fok

\* C9: enqueue_one_with(f) on a ring that is not full calls f on the slot at physical
\* index (read_at + length) mod C and adds one to length iff f returns Ok;
\* dequeue_one_with(f) on a ring that is not empty calls f on the slot at read_at and,
\* iff f returns Ok, advances read_at by one modulo C and takes one from length.  When f
\* returns Err, read_at and length are as before the call.
C9_GatedCommit ==
    /\ (last.op = "enqueue_one_with" /\ last.err = "") =>
          /\ last.called
          /\ last.idx = (last.pre.read_at + last.pre.length) % Cap
          /\ storage = Splice(last.pre.storage, last.idx, last.data)
          /\ read_at = last.pre.read_at
          /\ length = IF last.fok THEN last.pre.length + 1 ELSE last.pre.length
    /\ (last.op = "dequeue_one_with" /\ last.err = "") =>
          /\ last.called
          /\ last.idx = last.pre.read_at
          /\ last.out = <<last.pre.storage[last.pre.read_at + 1]>>
          /\ storage = Splice(last.pre.storage, last.idx, last.data)
          /\ read_at = IF last.fok THEN (last.pre.read_at + 1) % Cap
                       ELSE last.pre.read_at
          /\ length = IF last.fok THEN last.pre.length - 1 ELSE last.pre.length

\* C9 witness: enqueue_one_with at a slot past the wrap, the closure writing a new value
\* and returning Err.
C9_Witness ==
    /\ last.op = "enqueue_one_with"
    /\ last.called
    /\ ~last.fok
    /\ last.pre.read_at + last.pre.length > Cap
    /\ Len(last.data) = 1
    /\ last.data[1] # last.pre.storage[last.idx + 1]
    /\ length = last.pre.length

\* C10: enqueue_many(n) and enqueue_slice on a full ring, dequeue_many(n) and
\* dequeue_slice on an empty ring, return a zero-length slice or 0 for every n and every
\* slice, do not panic and do not change length; in no state do these four calls panic.
C10_NeverFails ==
    /\ last.op \in {"enqueue_many", "enqueue_slice", "dequeue_many", "dequeue_slice"} =>
          last.err = ""
    /\ (last.op \in {"enqueue_many", "enqueue_slice"} /\ last.pre.length = Cap) =>
          last.ret = 0 /\ length = last.pre.length
    /\ (last.op \in {"dequeue_many", "dequeue_slice"} /\ last.pre.length = 0) =>
          last.ret = 0 /\ length = last.pre.length
    /\ (last.op = "enqueue_many" /\ last.pre.length = Cap) => last.out = <<>>
    /\ (last.op = "dequeue_many" /\ last.pre.length = 0) => last.out = <<>>

\* C10 witness: enqueue_many(n) with n > C on a full ring of capacity >= 1.
C10_Witness ==
    /\ last.op = "enqueue_many"
    /\ Cap >= 1
    /\ last.pre.length = Cap
    /\ last.n > Cap
    /\ last.ret = 0
    /\ last.out = <<>>

\* C11: a ring of capacity 0 is both empty and full and its contiguous window is 0;
\* enqueue_one gives Err(Full) and dequeue_one Err(Empty); enqueue_many, dequeue_many,
\* enqueue_slice, dequeue_slice, get_unallocated, get_allocated, write_unallocated and
\* read_allocated return an empty slice or 0 for every argument; enqueue_unallocated(0)
\* and dequeue_allocated(0) change nothing; none of these calls panics, and length and
\* read_at stay 0.
C11_ZeroCapacity ==
    Cap = 0 =>
        /\ is_empty(Ring) /\ is_full(Ring)
        /\ contiguous_window(Ring) = 0
        /\ length = 0 /\ read_at = 0
        /\ last.op \in {"enqueue_one", "enqueue_one_with"} =>
              last.err = "Full" /\ ~last.called
        /\ last.op \in {"dequeue_one", "dequeue_one_with"} =>
              last.err = "Empty" /\ ~last.called
        /\ last.op \in {"enqueue_many", "dequeue_many", "enqueue_slice", "dequeue_slice",
                        "get_unallocated", "get_allocated", "write_unallocated",
                        "read_allocated"} =>
              last.err = "" /\ last.ret = 0 /\ last.buflen = 0
        /\ last.op \in {"enqueue_many", "dequeue_many", "get_unallocated",
                        "get_allocated"} =>
              last.out = <<>>
        /\ last.op \in {"dequeue_slice", "read_allocated"} => last.out = last.data
        /\ (last.op \in {"enqueue_unallocated", "dequeue_allocated"} /\ last.n = 0) =>
              last.err = ""

\* C11 witness: write_unallocated at the largest offset with a non-empty slice on a ring
\* of capacity 0 returned 0.
C11_Witness ==
    /\ Cap = 0
    /\ last.op = "write_unallocated"
    /\ last.off = UsizeMax
    /\ Len(last.data) > 0
    /\ last.err = ""
    /\ last.ret = 0

\* C12: for every offset and size, get_unallocated(offset, size) returns the empty slice
\* when offset > window, and otherwise the slice of the storage that starts at
\* start = (read_at + length + offset) mod C and has min(size, window - offset, C - start)
\* elements; it does not change read_at or length and never panics.
C12_GetUnallocated ==
    last.op = "get_unallocated" =>
        LET p == last.pre
            C == Len(p.storage)
            w == C - p.length
            start == IF C > 0 THEN (p.read_at + p.length + last.off) % C ELSE 0
        IN /\ last.err = ""
           /\ last.off > w => last.buflen = 0
           /\ last.off <= w =>
                 /\ last.idx = start
                 /\ last.buflen = Min(last.n, Min(w - last.off, C - start))
           /\ read_at = p.read_at
           /\ length = p.length

\* C13: write_unallocated(offset, data) returns min(|data|, window - offset) when
\* offset <= window and 0 when offset > window; it stores data[i] at the physical index
\* (read_at + length + offset + i) mod C for every i below the returned count, changes no
\* other slot and leaves read_at and length unchanged; a following
\* get_unallocated(offset, n) returns a slice that holds the written elements.
C13_WriteUnallocated ==
    last.op = "write_unallocated" =>
        LET p == last.pre
            C == Len(p.storage)
            w == C - p.length
            k == IF last.off <= w THEN Min(Len(last.data), w - last.off) ELSE 0
            at(i) == ((p.read_at + p.length + last.off + i) % C) + 1
        IN /\ last.err = ""
           /\ last.ret = k
           /\ \A i \in 0..(k - 1) : storage[at(i)] = last.data[i + 1]
           /\ \A j \in 1..C :
                 (\A i \in 0..(k - 1) : at(i) # j) => storage[j] = p.storage[j]
           /\ read_at = p.read_at
           /\ length = p.length
           /\ \A n \in Sizes :
                 LET s == get_unallocated(Ring, last.off, n)
                     m == Min(s.size, k)
                 IN Slice(storage, s.start, s.start + m) = Slice(last.data, 0, m)

\* The ring after enqueue_slice(Y) and then enqueue_unallocated(m), as a result record.
commit_after(r, Y, m) == enqueue_unallocated(enqueue_slice(r, Y).ring, m)

\* Out-of-order write then commit, seen from the state that write_unallocated(k, X) left:
\* whenever the window before it was at least k + |X|, every enqueue_slice(Y) with
\* |Y| = k followed by enqueue_unallocated(|X|) leaves the contents before the write,
\* then Y, then X.
out_of_order_commit(p, k, X) ==
    Len(p.storage) - p.length >= k + Len(X) =>
        \A Y \in SeqsOfLen(k) :
            /\ enqueue_slice(Ring, Y).ret = k
            /\ commit_after(Ring, Y, Len(X)).err = ""
            /\ Contents(commit_after(Ring, Y, Len(X)).ring) = Contents(p) \o Y \o X

\* C14 (as stated): from every reachable state with window >= k + m,
\* write_unallocated(k, X) with |X| = m, then enqueue_slice(Y) with |Y| = k, then
\* enqueue_unallocated(m) leaves the logical contents equal to the previous contents
\* followed by Y followed by X, also when the ring is empty with read_at # 0.
C14_AsStated ==
    (last.op = "write_unallocated" /\ last.err = "") =>
        out_of_order_commit(last.pre, last.off, last.data)

\* C14 (amended): the same, from every reachable state in which the ring is not empty or
\* read_at = 0, so that the enqueue_slice does not move read_at.
C14_OutOfOrderCommit ==
    (last.op = "write_unallocated" /\ last.err = ""
       /\ (last.pre.length > 0 \/ last.pre.read_at = 0)) =>
        out_of_order_commit(last.pre, last.off, last.data)

\* C14 witness: on a ring of capacity 3 holding one element at index 2,
\* write_unallocated(1, X) with one element put it at index 1, and the commit of one
\* element Y and then of X gives the old element, Y, X.
C14_Witness ==
    /\ last.op = "write_unallocated"
    /\ last.err = ""
    /\ Cap = 3
    /\ last.pre.read_at = 2
    /\ last.pre.length = 1
    /\ last.off = 1
    /\ Len(last.data) = 1
    /\ last.ret = 1
    /\ storage[2] = last.data[1]
    /\ Contents(commit_after(Ring, <<1>>, 1).ring) = Contents(last.pre) \o <<1>> \o last.data

\* C15: for every offset and size, get_allocated(offset, size) returns the empty slice
\* when offset > length, and otherwise the slice of the storage that starts at
\* start = (read_at + offset) mod C and has min(size, length - offset, C - start)
\* elements, the contiguous part only; the call changes no state.
C15_GetAllocated ==
    last.op = "get_allocated" =>
        LET p == last.pre
            C == Len(p.storage)
            start == IF C > 0 THEN (p.read_at + last.off) % C ELSE 0
            k == Min(last.n, Min(p.length - last.off, C - start))
        IN /\ last.err = ""
           /\ last.off > p.length => last.buflen = 0 /\ last.out = <<>>
           /\ last.off <= p.length =>
                 /\ last.idx = start
                 /\ last.buflen = k
                 /\ last.out = Slice(p.storage, start, start + k)
           /\ Ring = p

\* C16: read_allocated(offset, dst) returns k = min(|dst|, length - offset) when
\* offset <= length and 0 otherwise, copies the logical elements offset .. offset + k,
\* across the wrap if needed, into dst[0..k) in order, leaves dst[k..] as it was, and
\* changes neither read_at, length nor the storage.
C16_ReadAllocated ==
    last.op = "read_allocated" =>
        LET p == last.pre
            k == IF last.off <= p.length
                 THEN Min(Len(last.data), p.length - last.off) ELSE 0
        IN /\ last.err = ""
           /\ last.ret = k
           /\ Len(last.out) = Len(last.data)
           /\ SubSeq(last.out, 1, k) = SubSeq(Contents(p), last.off + 1, last.off + k)
           /\ SubSeq(last.out, k + 1, Len(last.out)) =
                 SubSeq(last.data, k + 1, Len(last.data))
           /\ Ring = p

\* C17: dequeue_many_with hands its closure the slice of the storage from read_at of
\* min(length, C - read_at) elements; dequeue_many(n) returns the first
\* min(n, length, C - read_at) allocated elements in order; it returns fewer than
\* min(n, length) only when the allocated region wraps around the storage end, and a
\* second call then returns the elements stored from index 0.
C17_DequeueMany ==
    LET p == last.pre
        C == Len(p.storage)
        max_size == Min(p.length, C - p.read_at)
        k == Min(last.n, max_size)
        second == dequeue_many(Ring, last.n - k)
    IN /\ last.op = "dequeue_many_with" =>
             /\ last.called
             /\ last.idx = p.read_at
             /\ last.buflen = max_size
             /\ last.err = "" =>
                   last.out = Slice(p.storage, p.read_at, p.read_at + max_size)
       /\ last.op = "dequeue_many" =>
             /\ last.err = ""
             /\ last.idx = p.read_at
             /\ last.ret = k
             /\ last.out = SubSeq(Contents(p), 1, k)
             /\ k < Min(last.n, p.length) =>
                   /\ p.read_at + p.length > C
                   /\ read_at = 0
                   /\ second.idx = 0
                   /\ second.ret = Min(last.n - k, p.length - k)
                   /\ second.out = Slice(storage, 0, second.ret)
                   /\ second.out = SubSeq(Contents(p), k + 1, k + second.ret)

\* C17 witness: dequeue_many(3) on a full ring of capacity 3 with read_at = 2 returned
\* the one element before the storage end; a second call returns two from index 0.
C17_Witness ==
    /\ last.op = "dequeue_many"
    /\ Cap = 3
    /\ last.pre.read_at = 2
    /\ last.pre.length = 3
    /\ last.n = 3
    /\ last.ret = 1
    /\ last.out = <<last.pre.storage[3]>>
    /\ dequeue_many(Ring, 2).out = <<storage[1], storage[2]>>

\* C18: a closure given to enqueue_many_with or dequeue_many_with that reports a committed
\* size larger than the slice it received, enqueue_unallocated(n) with n > window, and
\* dequeue_allocated(n) with n > length each panic and do not return; the aborted call
\* does not change length, so that 0 <= length <= C in every state.
C18_FatalErrors ==
    LET p == last.pre
        C == Len(p.storage)
    IN /\ (last.op \in {"enqueue_many_with", "dequeue_many_with"}
             /\ last.n > last.buflen) =>
             last.called /\ last.err = "panic" /\ length = p.length
       /\ (last.op = "enqueue_unallocated" /\ last.n > C - p.length) =>
             last.err = "panic" /\ length = p.length
       /\ (last.op = "dequeue_allocated" /\ last.n > p.length) =>
             last.err = "panic" /\ length = p.length
       /\ last.err = "panic" => length = p.length
       /\ 0 <= length /\ length <= Cap

\* C18 witness: enqueue_unallocated(n) with n one more than a window of at least 1
\* panicked and left the length as it was.
C18_Witness ==
    /\ last.op = "enqueue_unallocated"
    /\ Cap - last.pre.length >= 1
    /\ last.n = Cap - last.pre.length + 1
    /\ last.err = "panic"
    /\ length = last.pre.length

\* C19: the loopback is strictly FIFO and delivers exactly once: in any interleaving of
\* TxToken commits and receive calls the frames handed out by receive, followed by the
\* frames still queued, are the committed frames in commit order, so that the k-th
\* successful receive yields the k-th committed frame, none twice and none skipped; and
\* receive returns None exactly when the queue is empty.
C19_LoopbackFifo ==
    /\ sent = received \o queue
    /\ lo_last.op = "receive" =>
          /\ lo_last.some <=> lo_last.pre # <<>>
          /\ lo_last.some =>
                /\ lo_last.buffer = sent[Len(received)]
                /\ lo_last.buffer = rx_tokens[Len(rx_tokens)]
                /\ queue = Tail(lo_last.pre)
          /\ ~lo_last.some => queue = <<>> /\ received = sent

\* C19 witness: three frames, not all alike, were committed and received in that order,
\* and the fourth receive returned None.
C19_Witness ==
    /\ Len(sent) = 3
    /\ sent[1] # sent[2]
    /\ sent[2] # sent[3]
    /\ received = sent
    /\ lo_last.op = "receive"
    /\ ~lo_last.some

\* C20: transmit returns a TxToken in every state, whatever the queue length; consuming
\* the token with (len, f) calls f exactly once on a zero-filled buffer of len bytes,
\* then appends the buffer as f left it as one frame at the tail of the queue and
\* returns the result of f; while f runs the queue is as it was before the call.
C20_Transmit ==
    /\ tx_token.st = "none" => transmit(queue).some
    /\ lo_last.op = "transmit" =>
          lo_last.some /\ tx_token.st = "held" /\ queue = lo_last.pre
    /\ tx_token.st = "in_f" =>
          /\ lo_last.op = "tx_consume"
          /\ tx_token.calls = 1
          /\ tx_token.buffer = [i \in 1..lo_last.len |-> 0]
          /\ queue = lo_last.pre
          /\ sent = received \o lo_last.pre
    /\ lo_last.op = "tx_consumed" =>
          /\ lo_last.calls = 1
          /\ Len(lo_last.buffer) = lo_last.len
          /\ lo_last.buffer = lo_last.f.w
          /\ lo_last.result = lo_last.f.r
          /\ queue = Append(lo_last.pre, lo_last.buffer)
          /\ tx_token.st = "none"

\* C20 witness: with two frames queued, a token was consumed with len 2 and a closure
\* that set the second byte and returned r2, and the frame is the third of the queue.
C20_Witness ==
    /\ lo_last.op = "tx_consumed"
    /\ Len(lo_last.pre) = 2
    /\ lo_last.len = 2
    /\ lo_last.buffer = <<0, 1>>
    /\ lo_last.result = "r2"
    /\ queue = Append(lo_last.pre, <<0, 1>>)


\* C21: abandoning a Loopback TxToken is a no-op. While a TxToken obtained from
\* transmit or from receive waits unconsumed, the queue is the one it was issued with;
\* when it is dropped without consume, no frame is appended: the queue after the drop
\* is the queue before it and the queue at issue, nothing is recorded as sent, and the
\* queue still holds exactly the frames sent and not yet received.
C21_TxTokenDrop ==
    /\ tx_token.st = "held" => queue = tx_token.issued
    /\ lo_last.op = "tx_drop" =>
          /\ lo_last.token.st = "held"
          /\ lo_last.token.calls = 0
          /\ queue = lo_last.pre
          /\ queue = lo_last.token.issued
          /\ sent = received \o queue
          /\ tx_token = NoTx

\* A TxToken issued by receive is dropped while frames are queued.
C21_Witness ==
    /\ lo_last.op = "tx_drop"
    /\ lo_last.token.from = "receive"
    /\ Len(queue) >= 1


\* C22: tokens are single-use. A step that runs a closure on an RxToken's frame takes
\* exactly that token out of the live tokens, so no token runs a closure twice; a step
\* never appends more than one frame, a frame is appended only by a TxToken whose
\* consume called the closure once, and that token is gone afterwards; no other step
\* calls a closure or appends a frame.
C22_SingleUse ==
    [][/\ lo_last'.op = "rx_consume" =>
             /\ Len(rx_tokens') = Len(rx_tokens) - 1
             /\ \E i \in 1..Len(rx_tokens) :
                   /\ rx_tokens[i] = lo_last'.buffer
                   /\ rx_tokens' = SubSeq(rx_tokens, 1, i - 1)
                                      \o SubSeq(rx_tokens, i + 1, Len(rx_tokens))
             /\ UNCHANGED <<queue, sent, tx_token>>
       /\ Len(rx_tokens') > Len(rx_tokens) =>
             /\ lo_last'.op = "receive"
             /\ Len(rx_tokens') = Len(rx_tokens) + 1
             /\ Len(received') = Len(received) + 1
       /\ Len(sent') <= Len(sent) + 1
       /\ Len(queue') <= Len(queue) + 1
       /\ tx_token'.calls <= 1
       /\ tx_token'.st = "in_f" => tx_token.st = "held" /\ tx_token.calls = 0
       /\ (Len(queue') > Len(queue) \/ sent' # sent) =>
             /\ tx_token.st = "in_f"
             /\ tx_token.calls = 1
             /\ tx_token' = NoTx
             /\ lo_last'.op = "tx_consumed"
             /\ queue' = Append(queue, lo_last'.buffer)
             /\ sent' = Append(sent, lo_last'.buffer)
       /\ tx_token.st # "none" /\ tx_token'.st # "none" =>
             tx_token'.issued = tx_token.issued /\ tx_token'.from = tx_token.from]_vars

\* An RxToken was consumed while a second RxToken with the same frame is still alive.
C22_Witness ==
    /\ lo_last.op = "rx_consume"
    /\ lo_last.rx_alive = 2
    /\ Len(rx_tokens) = 1
    /\ rx_tokens[1] = lo_last.buffer


\* C23 as stated: at every receive or transmit call, every token issued by an earlier
\* call, the RxTokens as well as the TxToken, has been consumed or dropped: no TxToken
\* and no RxToken was alive when the call was made.
C23_AsStated ==
    lo_last.op \in {"receive", "transmit"} =>
        /\ lo_last.token.st = "none"
        /\ lo_last.rx_alive = 0

\* C23 amended: the discipline holds for the TxToken only. At every receive or
\* transmit call no TxToken of an earlier call is alive, at most one TxToken is alive
\* at any time, and a TxToken alive in a state was issued by the latest receive or
\* transmit call. An RxToken owns its frame and does not borrow the device: it can
\* stay alive across later calls and be consumed after them.
C23_TxSingleInflight ==
    /\ lo_last.op \in {"receive", "transmit"} =>
          /\ lo_last.token = NoTx
          /\ tx_token.st = IF lo_last.some THEN "held" ELSE "none"
    /\ tx_token.st # "none" => tx_token.issued = queue
    /\ lo_last.op \in {"tx_consume", "tx_consumed", "tx_drop"} =>
          lo_last.token.st # "none"
    /\ Len(rx_tokens) <= Len(received)

\* An RxToken issued by an earlier receive call is consumed after a later receive
\* call, whose own RxToken is still alive.
C23_Witness ==
    /\ lo_last.op = "rx_consume"
    /\ lo_last.rx_alive = 2
    /\ Len(received) = 2
    /\ lo_last.buffer = received[1]
    /\ received[1] # received[2]
    /\ rx_tokens = <<received[2]>>


\* C24: for every buffer B, check_len and new_checked return Error when |B| < 8 or
\* |B| < 8 * B[1] + 8 and Ok otherwise; they never panic and leave B as it was. A
\* buffer that passed the check fails it after set_header_len has stored a value v
\* with 8 * v + 8 > |B|.
C24_CheckLen ==
    /\ check_len(hdr_buffer).err \in {"", "Error"}
    /\ hdr_last.op \in {"check_len", "new_checked"} =>
          LET B == hdr_last.pre
          IN  /\ hdr_last.res.err =
                    IF Len(B) < 8 \/ Len(B) < 8 * B[2] + 8 THEN "Error" ELSE ""
              /\ hdr_last.res.buffer = B
              /\ hdr_buffer = B
    /\ (/\ hdr_last.op = "set_header_len"
        /\ check_len(hdr_last.pre).err = ""
        /\ 8 * hdr_last.value + 8 > Len(hdr_last.pre)) =>
          /\ hdr_last.res.err = ""
          /\ hdr_buffer[2] = hdr_last.value
          /\ check_len(hdr_buffer).err = "Error"
          /\ new_checked(hdr_buffer).err = "Error"

\* A buffer that passed the check was given a length field it cannot hold.
C24_Witness ==
    /\ hdr_last.op = "set_header_len"
    /\ check_len(hdr_last.pre).err = ""
    /\ Len(hdr_last.pre) > 8
    /\ 8 * hdr_last.value + 8 > Len(hdr_last.pre)
    /\ hdr_last.value < U8Max

\* C25: on every buffer B that passes check_len, whatever its length field hl,
\* payload and payload_mut return bytes 2 .. 8 * hl + 8 of B, 8 * hl + 6 bytes that lie
\* within B; bytes of B from 8 * hl + 8 on are not part of the payload: payload does
\* not return them and a write through payload_mut does not reach them.
C25_Payload ==
    (/\ hdr_last.op \in {"payload", "payload_mut"}
     /\ check_len(hdr_last.pre).err = "") =>
        LET B == hdr_last.pre
            hl == B[2]
        IN  /\ hdr_last.res.err = ""
            /\ hdr_last.res.start = 2
            /\ Len(hdr_last.res.out) = 8 * hl + 6
            /\ 8 * hl + 8 <= Len(B)
            /\ hdr_last.op = "payload" =>
                  /\ hdr_last.res.out = [i \in 1..(8 * hl + 6) |-> B[i + 2]]
                  /\ hdr_buffer = B
            /\ hdr_last.op = "payload_mut" =>
                  hdr_buffer = [i \in 1..Len(B) |->
                                   IF i > 2 /\ i <= 8 * hl + 8 THEN hdr_last.value
                                                               ELSE B[i]]

\* The payload of a checked buffer with bytes behind the header was returned.
C25_Witness ==
    /\ hdr_last.op = "payload"
    /\ hdr_last.res.err = ""
    /\ hdr_last.pre[2] = 1
    /\ Len(hdr_last.pre) > 8 * hdr_last.pre[2] + 8
    /\ Len(hdr_last.res.out) = 14

C27_EmitFrame ==
    hdr_last.op = "emit" =>
        LET B == hdr_last.pre
            R == hdr_last.repr
        IN  /\ Len(hdr_buffer) = Len(B)
            /\ \A i \in 3..Len(B) : hdr_buffer[i] = B[i]
            /\ Len(B) >= 2 =>
                  /\ hdr_last.res.err = ""
                  /\ IpProtocol_from(hdr_buffer[1]) = R.next_header
                  /\ R.next_header = Tcp => hdr_buffer[1] = 6
                  /\ hdr_buffer[2] = R.length
            /\ hdr_last.value = 2

\* A Repr with data was emitted into a buffer with room for the data.
C27_Witness ==
    /\ hdr_last.op = "emit"
    /\ hdr_last.res.err = ""
    /\ Len(hdr_last.pre) >= 8
    /\ Len(hdr_last.repr.data) = 6
    /\ hdr_last.pre[1] # hdr_buffer[1]
    /\ hdr_last.pre[2] # hdr_buffer[2]
    /\ hdr_buffer[3] # hdr_last.repr.data[1]


\* C28 as stated: in the four operations taking a closure no index is mutated before
\* the closure returns successfully: while the closure runs, read_at and length are
\* what they were before the call, and they still are when the call panics after the
\* closure was entered or the closure returns Err.
C28_AsStated ==
    (/\ last.op \in {"enqueue_one_with", "dequeue_one_with",
                     "enqueue_many_with", "dequeue_many_with"}
     /\ last.called) =>
        /\ last.mid = [read_at |-> last.pre.read_at, length |-> last.pre.length]
        /\ (last.err = "panic" \/ ~last.fok) =>
              /\ read_at = last.pre.read_at
              /\ length = last.pre.length

\* C28 amended: while the closure runs length is what it was before the call, and so
\* is read_at, but for enqueue_many_with on an empty ring, which has set read_at to 0
\* before it calls the closure. When the call panics after the closure was entered,
\* or the closure returns Err, read_at and length keep the values they had while the
\* closure ran.
C28_NoEarlyCommit ==
    (/\ last.op \in {"enqueue_one_with", "dequeue_one_with",
                     "enqueue_many_with", "dequeue_many_with"}
     /\ last.called) =>
        /\ last.mid.length = last.pre.length
        /\ last.mid.read_at =
              IF last.op = "enqueue_many_with" /\ last.pre.length = 0
              THEN 0
              ELSE last.pre.read_at
        /\ (last.err = "panic" \/ ~last.fok) =>
              /\ read_at = last.mid.read_at
              /\ length = last.mid.length

\* enqueue_many_with on an empty ring whose read_at is not 0 panicked after its
\* closure was entered: read_at has been reset.
C28_Witness ==
    /\ last.op = "enqueue_many_with"
    /\ last.called
    /\ last.err = "panic"
    /\ last.pre.length = 0
    /\ last.pre.read_at # 0
    /\ read_at = 0


\* C29: in every reachable state contiguous_window() is the largest number of
\* elements a single enqueue_many call can add: enqueue_many(n) with n >= C, called
\* in that state, returns a slice of exactly contiguous_window() elements; and
\* contiguous_window() <= window().
C29_ContiguousWindow ==
    /\ contiguous_window(Ring) <= window(Ring)
    /\ \A n \in {Cap, Cap + 1} :
          LET e == enqueue_many(Ring, n)
          IN  /\ e.err = ""
              /\ e.ret = contiguous_window(Ring)
              /\ Len(e.out) = contiguous_window(Ring)


\* C30: the bulk index operations agree with the discrete interface. From the state
\* before the call, enqueue_unallocated(n) with n <= window leaves read_at as it was
\* and adds n to length, which are the read_at and length after n successful
\* enqueue_one calls; dequeue_allocated(n) with n <= length sets read_at to
\* (read_at + n) mod C and takes n from length, which are the read_at and length
\* after n successful dequeue_one calls; neither changes the storage.
C30_BulkAgrees ==
    /\ (last.op = "enqueue_unallocated" /\ last.n <= window(last.pre)) =>
          LET d == enqueue_one_times(last.pre, last.n)
          IN  /\ last.err = ""
              /\ d.err = ""
              /\ read_at = last.pre.read_at
              /\ length = last.pre.length + last.n
              /\ read_at = d.ring.read_at
              /\ length = d.ring.length
              /\ storage = last.pre.storage
    /\ (last.op = "dequeue_allocated" /\ last.n <= last.pre.length) =>
          LET d == dequeue_one_times(last.pre, last.n)
          IN  /\ last.err = ""
              /\ d.err = ""
              /\ Cap > 0 => read_at = (last.pre.read_at + last.n) % Cap
              /\ length = last.pre.length - last.n
              /\ read_at = d.ring.read_at
              /\ length = d.ring.length
              /\ storage = last.pre.storage

\* dequeue_allocated took more than one element and moved read_at across the end of
\* the storage.
C30_Witness ==
    /\ last.op = "dequeue_allocated"
    /\ last.n = 2
    /\ last.n <= last.pre.length
    /\ last.pre.read_at + last.n > Cap
    /\ read_at = 1


\* C31: dequeuing never erases. dequeue_one, dequeue_one_with with a closure that
\* does not write, dequeue_many, dequeue_slice, dequeue_allocated and clear leave
\* every physical slot of the storage with the value it had before the call, whether
\* they succeed or fail; reset puts every slot in its reset state and sets length
\* and read_at to 0.
C31_DequeueKeepsStorage ==
    /\ (\/ last.op \in {"dequeue_one", "dequeue_many", "dequeue_slice",
                        "dequeue_allocated", "clear"}
        \/ (last.op = "dequeue_one_with" /\ last.data = <<>>)) =>
          storage = last.pre.storage
    /\ last.op = "clear" => read_at = 0 /\ length = 0
    /\ last.op = "reset" =>
          /\ Len(storage) = Len(last.pre.storage)
          /\ \A i \in 1..Len(storage) : storage[i] = ResetElem
          /\ length = 0
          /\ read_at = 0

\* dequeue_slice handed out two elements, and the slots they came from still hold
\* them, one of them not in its reset state.
C31_Witness ==
    /\ last.op = "dequeue_slice"
    /\ last.ret = 2
    /\ length = last.pre.length - 2
    /\ \E i \in 1..Len(storage) : storage[i] # ResetElem
    /\ storage[last.pre.read_at + 1] # ResetElem


\* C32: receive removes exactly the head frame of the queue when it is called and
\* moves it into the RxToken; the other frames stay queued in their order. The frame
\* stays out of the queue whether the RxToken is consumed or dropped. A frame
\* committed through the TxToken that receive issued is appended behind every frame
\* still queued.
C32_Receive ==
    /\ (lo_last.op = "receive" /\ lo_last.some) =>
          /\ lo_last.pre # <<>>
          /\ lo_last.buffer = lo_last.pre[1]
          /\ queue = SubSeq(lo_last.pre, 2, Len(lo_last.pre))
          /\ Len(rx_tokens) = lo_last.rx_alive + 1
          /\ rx_tokens[Len(rx_tokens)] = lo_last.pre[1]
          /\ tx_token.st = "held"
          /\ tx_token.from = "receive"
    /\ (lo_last.op = "receive" /\ ~lo_last.some) =>
          /\ lo_last.pre = <<>>
          /\ queue = <<>>
          /\ Len(rx_tokens) = lo_last.rx_alive
    /\ lo_last.op \in {"rx_consume", "rx_drop"} =>
          /\ queue = lo_last.pre
          /\ Len(rx_tokens) = lo_last.rx_alive - 1
    /\ (lo_last.op = "tx_consumed" /\ lo_last.token.from = "receive") =>
          /\ lo_last.pre = lo_last.token.issued
          /\ queue = lo_last.pre \o <<lo_last.buffer>>
    /\ Len(queue) + Len(received) = Len(sent)

\* The reply to a received frame was committed while another frame was still
\* queued, after the RxToken of the received frame had been dropped.
C32_Witness ==
    /\ lo_last.op = "tx_consumed"
    /\ lo_last.token.from = "receive"
    /\ Len(lo_last.pre) = 1
    /\ Len(queue) = 2
    /\ queue[1] # queue[2]
    /\ rx_tokens = <<>>
    /\ Len(received) = 1


\* C33: writes into the unallocated region never corrupt queued data. For every
\* offset, size and data, the slice get_unallocated returns and every slot that
\* get_unallocated's caller or write_unallocated changes lie in the unallocated
\* logical range (read_at + length + j) mod C, 0 <= j < window; read_at and length
\* stay as they were, every allocated slot keeps its value, and read_allocated and
\* dequeue_many of the whole allocated region see the same elements as before the
\* call.
C33_UnallocatedWrites ==
    last.op \in {"get_unallocated", "write_unallocated"} =>
        LET p == last.pre
            C == Len(p.storage)
            w == C - p.length
            free == {((p.read_at + p.length + j) % C) + 1 : j \in 0..(w - 1)}
            used == {((p.read_at + j) % C) + 1 : j \in 0..(p.length - 1)}
            before == [storage |-> p.storage, read_at |-> p.read_at,
                       length |-> p.length]
        IN /\ read_at = p.read_at
           /\ length = p.length
           /\ Len(storage) = C
           /\ \A i \in 1..C : storage[i] # p.storage[i] => i \in free
           /\ \A i \in used : storage[i] = p.storage[i]
           /\ (last.op = "get_unallocated" /\ last.err = "") =>
                 \A k \in 1..last.buflen : last.idx + k \in free
           /\ last.ret <= w
           /\ dequeue_many(Ring, C).out = dequeue_many(before, C).out
           /\ read_allocated(Ring, 0, [i \in 1..C |-> ResetElem]).out
                 = read_allocated(before, 0, [i \in 1..C |-> ResetElem]).out

\* write_unallocated wrote two elements around the end of the storage, next to an
\* allocated element it left alone.
C33_Witness ==
    /\ last.op = "write_unallocated"
    /\ last.err = ""
    /\ last.ret = 2
    /\ last.pre.length = 1
    /\ last.pre.read_at = 1
    /\ Len(storage) = 3
    /\ storage[1] # last.pre.storage[1]
    /\ storage[3] # last.pre.storage[3]
    /\ storage[2] = last.pre.storage[2]

====
